---- MODULE Spec2Model ----
(***************************************************************************)
(* Model of src/components/CostAnalysisChart.js: the cost projection       *)
(* functions (calculateMonthlyCost, validateHours, predictFutureHours,     *)
(* generateSpellData, generateBaselineData, calculateScenarioSavings,      *)
(* getRecommendedScenario) and the state of the CostAnalysisChart          *)
(* component (selectedSpells, error, chartInstance) under its handlers     *)
(* addSpell, removeSpell, updateSpell and its chart effect.                *)
(*                                                                         *)
(* JavaScript arrays are 0-indexed, TLA+ sequences 1-indexed: element      *)
(* `index` of a JS array is element index + 1 of the sequence.             *)
(* JS numbers are modelled by integers; the one place the code leaves the  *)
(* integers is a division, which is kept as an exact fraction num / den.   *)
(***************************************************************************)
EXTENDS Integers, Sequences, FiniteSets, TLC

VARIABLES
  hours,           \* INITIAL_DRIVING_HOURS, the module-level constant array
  predictedHours,  \* useMemo(() => predictFutureHours(...), [])
  selectedSpells,  \* useState([]): sequence of [spell, month, id]
  error,           \* useState(null): "null" or the message
  chartInstance,   \* useState(null): 0 (null) or an index into charts
  cleanupChart,    \* chartInstance captured by the pending effect cleanup
  charts,          \* one entry per `new Chart(...)` call, in call order
  canvasOk,        \* whether Chart.js can draw on the canvas of this browser
  now,             \* the value Date.now() reads, in clock ticks
  phase,           \* position of the component in React's render cycle
  fnIn,            \* arguments of the function applied on its own
  fnOp,            \* which function was applied on its own
  fnOut            \* its result

vars == <<hours, predictedHours, selectedSpells, error, chartInstance,
          cleanupChart, charts, canvasOk, now, phase, fnIn, fnOp, fnOut>>

uiVars == <<hours, predictedHours, selectedSpells, error, chartInstance,
            cleanupChart, charts, canvasOk, now, phase>>

fnVars == <<fnIn, fnOp, fnOut>>

----------------------------------------------------------------------------
(* Bounds of the model *)

\* new Chart(...) calls explored (one per run of the chart effect, so one
\* for the first render and one per change of the scenario list)
MaxCharts == 4

\* largest element of the series predictFutureHours is applied to on its own
MaxHour == 3

\* longest series predictFutureHours is applied to on its own
MaxLen == 4

\* largest predicted hours the series builders are applied to on their own
MaxPredicted == 3

\* largest magnitude of the hours and of the rate calculateMonthlyCost is
\* applied to on its own, each taken with both signs
MaxRate == 3

----------------------------------------------------------------------------
(* Constants of the program *)

BASE_COST_PER_HOUR == 100

INITIAL_DRIVING_HOURS == <<23, 48, 43, 29, 50, 108>>

\* the labels without December
MONTHS_withoutDecember ==
  <<"January", "February", "March", "April", "May", "June", "July",
    "August", "September", "October", "November">>

MONTHS ==
  <<"January", "February", "March", "April", "May", "June", "July",
    "August", "September", "October", "November", "December">>

SpellKeys == {"NONE", "TIRE", "ENGINE", "BOTH"}

\* the catalog with the hourly rate of TIRE copied to NONE
SPELL_OPTIONS_hourlyRate93(key) ==
  CASE key = "NONE"   -> [label |-> "No Spell", tireCost |-> 0,
                          engineCost |-> 0, hourlyRate |-> 93]
    [] key = "TIRE"   -> [label |-> "Tire Spell", tireCost |-> 10,
                          engineCost |-> 0, hourlyRate |-> 93]
    [] key = "ENGINE" -> [label |-> "Engine Spell", tireCost |-> 0,
                          engineCost |-> 32, hourlyRate |-> 83]
    [] key = "BOTH"   -> [label |-> "Both Spells", tireCost |-> 10,
                          engineCost |-> 32, hourlyRate |-> 83]

SPELL_OPTIONS(key) ==
  CASE key = "NONE"   -> [label |-> "No Spell", tireCost |-> 0,
                          engineCost |-> 0, hourlyRate |-> BASE_COST_PER_HOUR]
    [] key = "TIRE"   -> [label |-> "Tire Spell", tireCost |-> 10,
                          engineCost |-> 0, hourlyRate |-> 93]
    [] key = "ENGINE" -> [label |-> "Engine Spell", tireCost |-> 0,
                          engineCost |-> 32, hourlyRate |-> 83]
    [] key = "BOTH"   -> [label |-> "Both Spells", tireCost |-> 10,
                          engineCost |-> 32, hourlyRate |-> 83]

----------------------------------------------------------------------------
(* JavaScript values and arithmetic *)

\* A JS value handed to validateHours: an array or not, and for an array its
\* elements, each a number or not.
JsNumber(n) == [isNumber |-> TRUE, val |-> n]

JsNotANumber == [isNumber |-> FALSE, val |-> 0]

JsArray(elems) == [isArray |-> TRUE, elems |-> elems]

JsNotAnArray == [isArray |-> FALSE, elems |-> <<>>]

NumberArray(seq) == JsArray([i \in DOMAIN seq |-> JsNumber(seq[i])])

Max(a, b) == IF a >= b THEN a ELSE b

\* Math.floor in the place of Math.round
MathRound_floor(num, den) == num \div den

\* Math.round(num / den) for den > 0: the nearest integer, halves towards
\* +Infinity, that is floor(num / den + 1/2).
MathRound(num, den) == (2 * num + den) \div (2 * den)

\* (a / b) * 100 in IEEE arithmetic: 0/0 is NaN, x/0 is +-Infinity, and
\* otherwise the fraction 100a / b.
RatioTimes100(a, b) ==
  IF b # 0 THEN [kind |-> "finite", num |-> 100 * a, den |-> b]
  ELSE IF a = 0 THEN [kind |-> "NaN", num |-> 0, den |-> 0]
  ELSE IF a > 0 THEN [kind |-> "Infinity", num |-> 0, den |-> 0]
  ELSE [kind |-> "-Infinity", num |-> 0, den |-> 0]

RECURSIVE SumSeq(_)
SumSeq(s) == IF s = <<>> THEN 0 ELSE Head(s) + SumSeq(Tail(s))

\* array.slice(-k)
SliceLast(s, k) ==
  IF Len(s) <= k THEN s ELSE SubSeq(s, Len(s) - k + 1, Len(s))

----------------------------------------------------------------------------
(* Utility functions *)

\* the product without Math.max(0, ...)
calculateMonthlyCost_unclamped(hrs, costPerHour) == hrs * costPerHour

calculateMonthlyCost(hrs, costPerHour) == Max(0, hrs * costPerHour)

\* validateHours without the `typeof hour === "number"` test
validateHours_anyType(hv) ==
  IF ~hv.isArray \/ Len(hv.elems) = 0 THEN "throw"
  ELSE IF \A i \in DOMAIN hv.elems : hv.elems[i].val >= 0
       THEN "true" ELSE "false"

\* validateHours: "throw" for a non-array or an empty array, and otherwise
\* whether every element is a number >= 0.
validateHours(hv) ==
  IF ~hv.isArray \/ Len(hv.elems) = 0 THEN "throw"
  ELSE IF \A i \in DOMAIN hv.elems :
            hv.elems[i].isNumber /\ hv.elems[i].val >= 0
       THEN "true" ELSE "false"

\* the two reduce calls over historicalHours.slice(-3), weight = index + 1
WeightedSum(window) ==
  SumSeq([i \in DOMAIN window |-> window[i].val * i])

WeightSum(window) == SumSeq([i \in DOMAIN window |-> i])

predictFutureHours(hv) ==
  IF validateHours(hv) # "true"
    THEN [thrown |-> TRUE, value |-> 0]
    ELSE LET window == SliceLast(hv.elems, 3)
         IN [thrown |-> FALSE,
             value |-> MathRound(WeightedSum(window), WeightSum(window))]

----------------------------------------------------------------------------
(* Series builders of the component, with the values they close over       *)
(* (INITIAL_DRIVING_HOURS, predictedHours) as parameters                   *)

\* `index <= spellStartMonth` in the place of `index < spellStartMonth`
generateSpellData_inclusiveStart(hist, predicted, spell, spellStartMonth) ==
  [i \in 1..Len(MONTHS) |->
    LET index == i - 1
        spellTotalCost == spell.tireCost + spell.engineCost
        monthlyCost == calculateMonthlyCost(predicted, spell.hourlyRate)
    IN IF index < 6
         THEN calculateMonthlyCost(hist[index + 1], BASE_COST_PER_HOUR)
       ELSE IF index <= spellStartMonth
         THEN calculateMonthlyCost(predicted, BASE_COST_PER_HOUR)
       ELSE IF index = spellStartMonth
         THEN spellTotalCost + monthlyCost
       ELSE monthlyCost]

\* the historical months at the hourly rate of the spell
generateSpellData_spellRate(hist, predicted, spell, spellStartMonth) ==
  [i \in 1..Len(MONTHS) |->
    LET index == i - 1
        spellTotalCost == spell.tireCost + spell.engineCost
        monthlyCost == calculateMonthlyCost(predicted, spell.hourlyRate)
    IN IF index < 6
         THEN calculateMonthlyCost(hist[index + 1], spell.hourlyRate)
       ELSE IF index < spellStartMonth
         THEN calculateMonthlyCost(predicted, BASE_COST_PER_HOUR)
       ELSE IF index = spellStartMonth
         THEN spellTotalCost + monthlyCost
       ELSE monthlyCost]

generateSpellData(hist, predicted, spell, spellStartMonth) ==
  [i \in 1..Len(MONTHS) |->
    LET index == i - 1
        spellTotalCost == spell.tireCost + spell.engineCost
        monthlyCost == calculateMonthlyCost(predicted, spell.hourlyRate)
    IN IF index < 6
         THEN calculateMonthlyCost(hist[index + 1], BASE_COST_PER_HOUR)
       ELSE IF index < spellStartMonth
         THEN calculateMonthlyCost(predicted, BASE_COST_PER_HOUR)
       ELSE IF index = spellStartMonth
         THEN spellTotalCost + monthlyCost
       ELSE monthlyCost]

generateBaselineData(hist, predicted) ==
  [i \in 1..Len(MONTHS) |->
    LET index == i - 1
    IN IF index < 6
         THEN calculateMonthlyCost(hist[index + 1], BASE_COST_PER_HOUR)
         ELSE calculateMonthlyCost(predicted, BASE_COST_PER_HOUR)]

\* `spellCost - baselineCost` in the place of `baselineCost - spellCost`
calculateScenarioSavings_swapped(hist, predicted, spellConfig) ==
  LET baselineCost == SumSeq(generateBaselineData(hist, predicted))
      spell == SPELL_OPTIONS(spellConfig.spell)
      spellCost ==
        SumSeq(generateSpellData(hist, predicted, spell, spellConfig.month))
  IN [savings |-> spellCost - baselineCost,
      spellConfig |-> spellConfig,
      roi |-> RatioTimes100(spellCost - baselineCost,
                            spell.tireCost + spell.engineCost)]

calculateScenarioSavings(hist, predicted, spellConfig) ==
  LET baselineCost == SumSeq(generateBaselineData(hist, predicted))
      spell == SPELL_OPTIONS(spellConfig.spell)
      spellCost ==
        SumSeq(generateSpellData(hist, predicted, spell, spellConfig.month))
  IN [savings |-> baselineCost - spellCost,
      spellConfig |-> spellConfig,
      roi |-> RatioTimes100(baselineCost - spellCost,
                            spell.tireCost + spell.engineCost)]

\* number.toFixed(digits) of the fraction num / den (den > 0): the decimal
\* with that many digits nearest to it, halves away from zero, given as the
\* integer scaled by 10^digits; NaN and the infinities print as their names.
ToFixed(r, digits) ==
  LET scale == 10 ^ digits
      mag == IF r.num >= 0 THEN r.num ELSE -r.num
      n == (2 * mag * scale + r.den) \div (2 * r.den)
  IN IF r.kind = "finite"
       THEN [text |-> "number", scaled |-> IF r.num >= 0 THEN n ELSE -n]
       ELSE [text |-> r.kind, scaled |-> 0]

\* the comparison of the reduce callback of getRecommendedScenario, with
\* `>=` and with `<` in the place of `>`
BetterOrEqual(current, best) == current.savings >= best.savings

Worse(current, best) == current.savings < best.savings

Better(current, best) == current.savings > best.savings

RECURSIVE ReduceBest(_, _, _)
ReduceBest(analysis, best, i) ==
  IF i > Len(analysis) THEN best
  ELSE ReduceBest(analysis,
                  IF Better(analysis[i], best) THEN analysis[i] ELSE best,
                  i + 1)

\* the recommendation text without its `savings > 0` test
RecommendationAlways(bestScenario) ==
  [kind |-> "highest",
   description |-> bestScenario.description,
   savings |-> <<ToFixed([kind |-> "finite", num |-> bestScenario.savings,
                          den |-> 1], 2)>>,
   roi |-> <<ToFixed(bestScenario.roi, 1)>>]

\* the text of the recommendation: with savings > 0 it names the scenario
\* and prints savings.toFixed(2) and roi.toFixed(1)
Recommendation(bestScenario) ==
  IF bestScenario.savings > 0
    THEN [kind |-> "highest",
          description |-> bestScenario.description,
          savings |-> <<ToFixed([kind |-> "finite",
                                 num |-> bestScenario.savings,
                                 den |-> 1], 2)>>,
          roi |-> <<ToFixed(bestScenario.roi, 1)>>]
    ELSE [kind |-> "none", description |-> <<>>, savings |-> <<>>,
          roi |-> <<>>]

\* getRecommendedScenario with `length <= 1` in the place of `length === 0`
getRecommendedScenario_lengthAtMostOne(hist, predicted, spells) ==
  IF Len(spells) <= 1 THEN <<>>
  ELSE LET scenarioAnalysis ==
             [i \in DOMAIN spells |->
               LET analysis ==
                     calculateScenarioSavings(hist, predicted, spells[i])
               IN [savings |-> analysis.savings,
                   spellConfig |-> analysis.spellConfig,
                   roi |-> analysis.roi,
                   description |->
                     <<SPELL_OPTIONS(spells[i].spell).label,
                       MONTHS[spells[i].month + 1]>>]]
           bestScenario ==
             ReduceBest(scenarioAnalysis, scenarioAnalysis[1], 1)
       IN <<[savings |-> bestScenario.savings,
             spellConfig |-> bestScenario.spellConfig,
             roi |-> bestScenario.roi,
             description |-> bestScenario.description,
             recommendation |-> Recommendation(bestScenario)]>>

\* getRecommendedScenario: <<>> for null, and otherwise <<the result>>
getRecommendedScenario(hist, predicted, spells) ==
  IF Len(spells) = 0 THEN <<>>
  ELSE LET scenarioAnalysis ==
             [i \in DOMAIN spells |->
               LET analysis ==
                     calculateScenarioSavings(hist, predicted, spells[i])
               IN [savings |-> analysis.savings,
                   spellConfig |-> analysis.spellConfig,
                   roi |-> analysis.roi,
                   description |->
                     <<SPELL_OPTIONS(spells[i].spell).label,
                       MONTHS[spells[i].month + 1]>>]]
           bestScenario ==
             ReduceBest(scenarioAnalysis, scenarioAnalysis[1], 1)
       IN <<[savings |-> bestScenario.savings,
             spellConfig |-> bestScenario.spellConfig,
             roi |-> bestScenario.roi,
             description |-> bestScenario.description,
             recommendation |-> Recommendation(bestScenario)]>>

\* the "Return on Investment" line of the recommendation section: <<>> when
\* it is not rendered
RoiLine(spells, recommended) ==
  IF Len(spells) > 0 /\ recommended # <<>> /\ Head(recommended).savings > 0
    THEN <<ToFixed(Head(recommended).roi, 1)>>
    ELSE <<>>

\* the heading "Recommended Spell: {label}" of the recommendation section:
\* <<the label>>, and <<>> when the section is not rendered
RecommendedSpellHeading(spells, recommended) ==
  IF Len(spells) > 0 /\ recommended # <<>>
    THEN <<SPELL_OPTIONS(Head(recommended).spellConfig.spell).label>>
    ELSE <<>>

----------------------------------------------------------------------------
(* The component *)

\* Values of the module constant INITIAL_DRIVING_HOURS the component is run
\* with: the one of the source, two series with small hours (predicted hours
\* 1 and 0), and a series validateHours rejects.
DrivingHoursChoices ==
  {INITIAL_DRIVING_HOURS, <<0, 0, 0, 1, 1, 1>>, <<3, 2, 1, 0, 0, 0>>,
   <<23, 48, 43, 29, 50, -1>>}

NoInput == [hv |-> JsNotAnArray, hist |-> <<>>, predicted |-> 0,
            spell |-> "NONE", month |-> 6, hrs |-> 0, costPerHour |-> 0]

NoOutput == [thrown |-> FALSE, value |-> 0, series |-> <<>>,
             roi |-> [kind |-> "finite", num |-> 0, den |-> 1]]

Init ==
  /\ hours \in DrivingHoursChoices
  /\ predictedHours = 0
  /\ selectedSpells = <<>>
  /\ error = "null"
  /\ chartInstance = 0
  /\ cleanupChart = 0
  /\ charts = <<>>
  /\ canvasOk \in BOOLEAN
  /\ now = 0
  /\ phase = "start"
  /\ fnIn = NoInput
  /\ fnOp = "none"
  /\ fnOut = NoOutput

\* chart.destroy() on the chart a reference names (0 is null: no call)
Destroy(cs, ref) ==
  IF ref = 0 THEN cs ELSE [cs EXCEPT ![ref] = "destroyed"]

\* the first render: the predictedHours memo runs predictFutureHours in a
\* try/catch that sets the error and yields 0
Mount ==
  /\ phase = "start"
  /\ LET r == predictFutureHours(NumberArray(hours))
     IN /\ predictedHours' = IF r.thrown THEN 0 ELSE r.value
        /\ error' = IF r.thrown THEN "Unable to predict driving hours"
                    ELSE error
  /\ phase' = "effect"
  /\ UNCHANGED <<hours, selectedSpells, chartInstance, cleanupChart, charts,
                 canvasOk, now, fnVars>>

\* the cleanup function the previous run of the chart effect returned
EffectCleanup ==
  /\ phase = "cleanup"
  /\ charts' = Destroy(charts, cleanupChart)
  /\ phase' = "effect"
  /\ UNCHANGED <<hours, predictedHours, selectedSpells, error, chartInstance,
                 cleanupChart, canvasOk, now, fnVars>>

\* The chart effect: destroys the chart of its closure, constructs the new
\* one, and on success stores it and clears the error; when the constructor
\* throws, the catch sets the error. chartRef.current is the canvas, which
\* every render returns, so the early return is not taken. The cleanup the
\* effect returns closes over the same chartInstance as the effect.
ChartEffect ==
  /\ phase = "effect"
  /\ IF canvasOk
       THEN /\ charts' = Append(Destroy(charts, chartInstance), "live")
            /\ chartInstance' = Len(charts) + 1
            /\ error' = "null"
       ELSE /\ charts' = Append(Destroy(charts, chartInstance), "failed")
            /\ chartInstance' = chartInstance
            /\ error' = "Failed to render chart"
  /\ cleanupChart' = chartInstance
  /\ phase' = "idle"
  /\ UNCHANGED <<hours, predictedHours, selectedSpells, canvasOk, now,
                 fnVars>>

addSpell(prev, t) ==
  Append(prev, [spell |-> "NONE", month |-> 6, id |-> t])

removeSpell(prev, spellId) ==
  SelectSeq(prev, LAMBDA spell : spell.id # spellId)

updateSpell(prev, id, newSpell, newMonth) ==
  [i \in DOMAIN prev |->
    IF prev[i].id = id
      THEN [prev[i] EXCEPT !.spell = newSpell, !.month = newMonth]
      ELSE prev[i]]

\* a handler that sets selectedSpells: the component renders again, and the
\* chart effect, which depends on selectedSpells, is run again
SetSelectedSpells(next) ==
  /\ phase = "idle"
  /\ Len(charts) < MaxCharts
  /\ selectedSpells' = next
  /\ phase' = "cleanup"
  /\ UNCHANGED <<hours, predictedHours, error, chartInstance, cleanupChart,
                 charts, canvasOk, now, fnVars>>

\* click on "Add New Spell Scenario"
AddSpell == SetSelectedSpells(addSpell(selectedSpells, now))

\* click on "Remove Spell" of entry i
RemoveSpell ==
  \E i \in DOMAIN selectedSpells :
    SetSelectedSpells(removeSpell(selectedSpells, selectedSpells[i].id))

\* the spell select of entry i changes to key
SelectSpell ==
  \E i \in DOMAIN selectedSpells : \E key \in SpellKeys :
    /\ key # selectedSpells[i].spell
    /\ SetSelectedSpells(updateSpell(selectedSpells, selectedSpells[i].id,
                                     key, selectedSpells[i].month))

\* the values of the options of the month select with `index` in the place
\* of `index + 6`
MonthOptions_index ==
  {index : index \in 0..(Len(SubSeq(MONTHS, 7, Len(MONTHS))) - 1)}

\* the values of the options of the month select, MONTHS.slice(6) mapped to
\* index + 6, as Number(e.target.value) reads them
MonthOptions ==
  {index + 6 : index \in 0..(Len(SubSeq(MONTHS, 7, Len(MONTHS))) - 1)}

\* the month select of entry i changes to another of its options
SelectMonth ==
  \E i \in DOMAIN selectedSpells : \E m \in MonthOptions :
    /\ m # selectedSpells[i].month
    /\ SetSelectedSpells(updateSpell(selectedSpells, selectedSpells[i].id,
                                     selectedSpells[i].spell, m))

\* The clock Date.now() reads advances. The ids it gives are only compared
\* for equality, so the model counts the ticks that separate two reads: the
\* clock advances once its value has been given to a scenario of the list.
Tick ==
  /\ phase = "idle"
  /\ \E i \in DOMAIN selectedSpells : selectedSpells[i].id = now
  /\ now' = now + 1
  /\ UNCHANGED <<hours, predictedHours, selectedSpells, error, chartInstance,
                 cleanupChart, charts, canvasOk, phase, fnVars>>

\* the component unmounts: React runs the pending effect cleanup
Unmount ==
  /\ phase = "idle"
  /\ charts' = Destroy(charts, cleanupChart)
  /\ phase' = "unmounted"
  /\ UNCHANGED <<hours, predictedHours, selectedSpells, error, chartInstance,
                 cleanupChart, canvasOk, now, fnVars>>

Next ==
  \/ Mount
  \/ EffectCleanup
  \/ ChartEffect
  \/ AddSpell
  \/ RemoveSpell
  \/ SelectSpell
  \/ SelectMonth
  \/ Tick
  \/ Unmount

Spec == Init /\ [][Next]_vars

\* the memos and the rendered output, as functions of the state
Baseline == generateBaselineData(hours, predictedHours)

Recommended == getRecommendedScenario(hours, predictedHours, selectedSpells)

Rendered == phase \in {"effect", "cleanup", "idle"}

----------------------------------------------------------------------------
(* The functions applied on their own, to arguments drawn from bounded     *)
(* sets                                                                    *)

Elements == {JsNotANumber} \cup {JsNumber(n) : n \in -1..MaxHour}

RECURSIVE SeqsUpTo(_, _)
SeqsUpTo(S, n) ==
  IF n = 0 THEN {<<>>}
  ELSE LET shorter == SeqsUpTo(S, n - 1)
       IN shorter \cup {Append(s, x) : s \in {t \in shorter : Len(t) = n - 1},
                                       x \in S}

PredictInputs ==
  {[NoInput EXCEPT !.hv = v] :
     v \in {JsNotAnArray, NumberArray(INITIAL_DRIVING_HOURS)}
           \cup {JsArray(s) : s \in SeqsUpTo(Elements, MaxLen)}}

\* series of six hours >= 0
ValidHistories ==
  {INITIAL_DRIVING_HOURS, <<0, 0, 0, 1, 1, 1>>, <<2, 0, 1, 3, 0, 2>>}

SeriesInputs ==
  {[NoInput EXCEPT !.hist = h, !.predicted = q, !.spell = key, !.month = m] :
     h \in ValidHistories, q \in (0..MaxPredicted) \cup {76},
     key \in SpellKeys, m \in 6..11}

\* integer hours and rates of both signs, and the rates of the catalog
CostInputs ==
  {[NoInput EXCEPT !.hrs = h, !.costPerHour = r] :
     h \in (-MaxRate)..MaxRate,
     r \in ((-MaxRate)..MaxRate) \cup {83, 93, BASE_COST_PER_HOUR}}

FnInit ==
  /\ hours = INITIAL_DRIVING_HOURS
  /\ predictedHours = 0
  /\ selectedSpells = <<>>
  /\ error = "null"
  /\ chartInstance = 0
  /\ cleanupChart = 0
  /\ charts = <<>>
  /\ canvasOk = TRUE
  /\ now = 0
  /\ phase = "start"
  /\ fnIn \in PredictInputs \cup SeriesInputs \cup CostInputs
  /\ fnOp = "none"
  /\ fnOut = NoOutput

ApplyCalculateMonthlyCost ==
  /\ fnOp = "none"
  /\ fnIn \in CostInputs
  /\ fnOp' = "calculateMonthlyCost"
  /\ fnOut' = [NoOutput EXCEPT
                 !.value = calculateMonthlyCost(fnIn.hrs, fnIn.costPerHour)]
  /\ UNCHANGED <<fnIn, uiVars>>

ApplyPredictFutureHours ==
  /\ fnOp = "none"
  /\ fnIn \in PredictInputs
  /\ fnOp' = "predictFutureHours"
  /\ LET r == predictFutureHours(fnIn.hv)
     IN fnOut' = [NoOutput EXCEPT !.thrown = r.thrown, !.value = r.value]
  /\ UNCHANGED <<fnIn, uiVars>>

ApplyGenerateBaselineData ==
  /\ fnOp = "none"
  /\ fnIn \in SeriesInputs
  /\ fnOp' = "generateBaselineData"
  /\ fnOut' = [NoOutput EXCEPT
                 !.series = generateBaselineData(fnIn.hist, fnIn.predicted)]
  /\ UNCHANGED <<fnIn, uiVars>>

ApplyGenerateSpellData ==
  /\ fnOp = "none"
  /\ fnIn \in SeriesInputs
  /\ fnOp' = "generateSpellData"
  /\ fnOut' = [NoOutput EXCEPT
                 !.series = generateSpellData(fnIn.hist, fnIn.predicted,
                                              SPELL_OPTIONS(fnIn.spell),
                                              fnIn.month)]
  /\ UNCHANGED <<fnIn, uiVars>>

ApplyCalculateScenarioSavings ==
  /\ fnOp = "none"
  /\ fnIn \in SeriesInputs
  /\ fnOp' = "calculateScenarioSavings"
  /\ LET a == calculateScenarioSavings(
                fnIn.hist, fnIn.predicted,
                [spell |-> fnIn.spell, month |-> fnIn.month, id |-> 0])
     IN fnOut' = [NoOutput EXCEPT !.value = a.savings, !.roi = a.roi]
  /\ UNCHANGED <<fnIn, uiVars>>

FnNext ==
  \/ ApplyCalculateMonthlyCost
  \/ ApplyPredictFutureHours
  \/ ApplyGenerateBaselineData
  \/ ApplyGenerateSpellData
  \/ ApplyCalculateScenarioSavings

FnSpec == FnInit /\ [][FnNext]_vars

----------------------------------------------------------------------------
(* Properties of the functions applied on their own (under FnSpec)         *)

\* C1. Baseline identity: for every activation month in 6..11, the series
\* generateSpellData builds for the option NONE equals, element for element,
\* the series generateBaselineData builds for the same historical and
\* predicted hours.
C1_BaselineIdentity ==
  (fnOp = "generateSpellData" /\ fnIn.spell = "NONE")
    => /\ Len(fnOut.series) = 12
       /\ \A i \in 1..12 :
            fnOut.series[i]
              = generateBaselineData(fnIn.hist, fnIn.predicted)[i]

C1_Witness ==
  /\ fnOp = "generateSpellData"
  /\ fnIn.spell = "NONE"
  /\ fnIn.month = 9
  /\ fnIn.predicted = 76
  /\ fnIn.hist = INITIAL_DRIVING_HOURS
  /\ fnOut.series = generateBaselineData(fnIn.hist, fnIn.predicted)

\* C2. In months 6..11 of a scenario series with option o and activation
\* month m: a month before m costs max(0, predicted * 100), month m costs
\* o.tireCost + o.engineCost + max(0, predicted * o.hourlyRate), a month
\* after m costs max(0, predicted * o.hourlyRate). So the one-time cost is
\* charged in one month only, and with m = 6 no month is charged at the base
\* rate.
C2_ActivationMonth ==
  fnOp = "generateSpellData"
    => LET o == SPELL_OPTIONS(fnIn.spell)
           m == fnIn.month
           atBase == Max(0, fnIn.predicted * 100)
           atRate == Max(0, fnIn.predicted * o.hourlyRate)
           oneTime == o.tireCost + o.engineCost
       IN /\ \A i \in 6..11 :
               /\ i < m => fnOut.series[i + 1] = atBase
               /\ i = m => fnOut.series[i + 1] = oneTime + atRate
               /\ i > m => fnOut.series[i + 1] = atRate
          /\ SumSeq(SubSeq(fnOut.series, 7, 12))
               = (m - 6) * atBase + (12 - m) * atRate + oneTime
          /\ m = 6 => /\ fnOut.series[7] = oneTime + atRate
                      /\ \A i \in 7..11 : fnOut.series[i + 1] = atRate

C2_Witness ==
  /\ fnOp = "generateSpellData"
  /\ fnIn.spell = "BOTH"
  /\ fnIn.month = 8
  /\ fnIn.predicted = 3
  /\ fnOut.series[7] = 300
  /\ fnOut.series[8] = 300
  /\ fnOut.series[9] = 42 + 249
  /\ fnOut.series[10] = 249

\* C3. On a valid series predictFutureHours returns the integer nearest to
\* (sum of v_i * i) / (sum of i), where v_1..v_k are the last k = min(3,
\* length) elements in order, an exact half going up: r with
\* r - 1/2 <= S / W < r + 1/2. For [23,48,43,29,50,108] it returns 76.
C3_WeightedAverage ==
  (fnOp = "predictFutureHours" /\ validateHours(fnIn.hv) = "true")
    => LET e == fnIn.hv.elems
           n == Len(e)
           r == fnOut.value
           S == CASE n = 1 -> e[1].val
                  [] n = 2 -> e[1].val + 2 * e[2].val
                  [] OTHER -> e[n - 2].val + 2 * e[n - 1].val + 3 * e[n].val
           W == CASE n = 1 -> 1
                  [] n = 2 -> 3
                  [] OTHER -> 6
       IN /\ ~fnOut.thrown
          /\ 2 * W * r - W <= 2 * S
          /\ 2 * S < 2 * W * r + W
          /\ fnIn.hv = NumberArray(<<23, 48, 43, 29, 50, 108>>) => r = 76

\* the series of the source, whose weighted average 453/6 = 75.5 is an
\* exact half
C3_Witness ==
  /\ fnOp = "predictFutureHours"
  /\ fnIn.hv = NumberArray(<<23, 48, 43, 29, 50, 108>>)
  /\ ~fnOut.thrown
  /\ fnOut.value = 76

\* C11. predictFutureHours throws (and so returns no value) when its input
\* is not an array, is an empty array, or has an element that is not a
\* number or is negative, and it returns a value for every non-empty array
\* of numbers >= 0.
C11_InvalidInputThrows ==
  fnOp = "predictFutureHours"
    => LET v == fnIn.hv
           invalid == \/ ~v.isArray
                      \/ v.elems = <<>>
                      \/ \E i \in 1..Len(v.elems) :
                           \/ ~v.elems[i].isNumber
                           \/ v.elems[i].val < 0
       IN /\ invalid => fnOut.thrown
          /\ ~invalid => ~fnOut.thrown

\* an array whose last element is not a number, after two numbers >= 0
C11_Witness ==
  /\ fnOp = "predictFutureHours"
  /\ fnIn.hv = JsArray(<<JsNumber(2), JsNumber(0), JsNotANumber>>)
  /\ fnOut.thrown

\* C12. generateBaselineData and generateSpellData return exactly 12 values,
\* each >= 0, for every option of the catalog, every activation month in
\* 6..11, and every series of six hours >= 0 and predicted hours >= 0.
C12_SeriesShape ==
  fnOp \in {"generateBaselineData", "generateSpellData"}
    => /\ DOMAIN fnOut.series = 1..12
       /\ \A i \in 1..12 : fnOut.series[i] >= 0

\* predicted hours 0 and activation in the last month: eleven months of 0
\* or of the historical cost, and the one-time cost in December
C12_Witness ==
  /\ fnOp = "generateSpellData"
  /\ fnIn.spell = "ENGINE"
  /\ fnIn.month = 11
  /\ fnIn.predicted = 0
  /\ fnIn.hist = <<0, 0, 0, 1, 1, 1>>
  /\ fnOut.series = <<0, 0, 0, 100, 100, 100, 0, 0, 0, 0, 0, 32>>

\* C13. Months 0..5 of a scenario series are the historical hours times 100,
\* which are months 0..5 of the baseline series, and they are the same for
\* every option and every activation month.
C13_HistoryFrame ==
  fnOp = "generateSpellData"
    => \A i \in 1..6 :
         /\ fnOut.series[i] = fnIn.hist[i] * 100
         /\ fnOut.series[i]
              = generateBaselineData(fnIn.hist, fnIn.predicted)[i]
         /\ \A key \in SpellKeys : \A m \in 6..11 :
              generateSpellData(fnIn.hist, fnIn.predicted,
                                SPELL_OPTIONS(key), m)[i] = fnOut.series[i]

C13_Witness ==
  /\ fnOp = "generateSpellData"
  /\ fnIn.spell = "TIRE"
  /\ fnIn.month = 7
  /\ fnIn.hist = INITIAL_DRIVING_HOURS
  /\ SubSeq(fnOut.series, 1, 6) = <<2300, 4800, 4300, 2900, 5000, 10800>>
  /\ fnOut.series[8] # generateBaselineData(fnIn.hist, fnIn.predicted)[8]

\* C16. calculateMonthlyCost(hours, rate) is hours * rate when that is
\* positive and 0 otherwise, so it is never negative, for integer hours and
\* rates of either sign.
C16_ClampedCost ==
  fnOp = "calculateMonthlyCost"
    => LET product == fnIn.hrs * fnIn.costPerHour
       IN /\ fnOut.value >= 0
          /\ product >= 0 => fnOut.value = product
          /\ product < 0 => fnOut.value = 0

\* negative hours at a positive rate
C16_Witness ==
  /\ fnOp = "calculateMonthlyCost"
  /\ fnIn.hrs = -2
  /\ fnIn.costPerHour = 83
  /\ fnOut.value = 0

\* C21. For an option of the catalog with hourlyRate < 100 and predicted
\* hours > 0, the savings of a scenario activated in month m are
\* (12 - m) * predicted * (100 - hourlyRate) - (tireCost + engineCost), and
\* for m in 6..10 they are greater than the savings of the same option
\* activated in month m + 1.
C21_SavingsMonotoneInMonth ==
  (/\ fnOp = "calculateScenarioSavings"
   /\ SPELL_OPTIONS(fnIn.spell).hourlyRate < 100
   /\ fnIn.predicted > 0)
    => LET o == SPELL_OPTIONS(fnIn.spell)
           m == fnIn.month
           later == calculateScenarioSavings(
                      fnIn.hist, fnIn.predicted,
                      [spell |-> fnIn.spell, month |-> m + 1, id |-> 0])
       IN /\ fnOut.value
               = (12 - m) * fnIn.predicted * (100 - o.hourlyRate)
                   - (o.tireCost + o.engineCost)
          /\ m <= 10 => fnOut.value > later.savings

\* BOTH in month 6 with 76 predicted hours saves 7710, and 76 * 17 less in
\* month 7
C21_Witness ==
  /\ fnOp = "calculateScenarioSavings"
  /\ fnIn.spell = "BOTH"
  /\ fnIn.month = 6
  /\ fnIn.predicted = 76
  /\ fnIn.hist = INITIAL_DRIVING_HOURS
  /\ fnOut.value = 7710
  /\ calculateScenarioSavings(fnIn.hist, fnIn.predicted,
                              [spell |-> "BOTH", month |-> 7, id |-> 0]).savings
       = 6418

----------------------------------------------------------------------------
(* Properties of the component (under Spec)                                *)

OneTimeCost(key) ==
  SPELL_OPTIONS(key).tireCost + SPELL_OPTIONS(key).engineCost

Analysis(i) ==
  calculateScenarioSavings(hours, predictedHours, selectedSpells[i])

\* C4. End to end: with the hours [23,48,43,29,50,108] the predicted hours
\* are 76, and a scenario BOTH activated in month 6 has month 6 = 6350,
\* months 7..11 = 6308, against a baseline of 7600 in months 6..11; the
\* totals are 75700 and 67990, the savings 7710, and roi * 42 = 7710 * 100.
C4_EndToEnd ==
  (Rendered /\ hours = <<23, 48, 43, 29, 50, 108>>)
    => /\ predictedHours = 76
       /\ \A i \in DOMAIN selectedSpells :
            (selectedSpells[i].spell = "BOTH" /\ selectedSpells[i].month = 6)
              => LET series == generateSpellData(hours, predictedHours,
                                                 SPELL_OPTIONS("BOTH"), 6)
                     a == Analysis(i)
                 IN /\ series[7] = 6350
                    /\ \A j \in 8..12 : series[j] = 6308
                    /\ \A j \in 7..12 : Baseline[j] = 7600
                    /\ SumSeq(Baseline) = 75700
                    /\ SumSeq(series) = 67990
                    /\ a.savings = 7710
                    /\ a.roi.kind = "finite"
                    /\ a.roi.num * 42 = 7710 * 100 * a.roi.den

C4_Witness ==
  /\ phase = "idle"
  /\ hours = <<23, 48, 43, 29, 50, 108>>
  /\ Len(selectedSpells) = 1
  /\ selectedSpells[1].spell = "BOTH"
  /\ selectedSpells[1].month = 6
  /\ Head(Recommended).savings = 7710
  /\ Head(Recommended).recommendation.roi = <<[text |-> "number",
                                            scaled |-> 183571]>>

\* C5. For a non-empty list, the scenario getRecommendedScenario returns is
\* one of the list, and its savings are at least the savings of every
\* scenario of the list.
C5_BestIsMaximum ==
  (Rendered /\ Len(selectedSpells) > 0)
    => /\ Recommended # <<>>
       /\ LET best == Head(Recommended)
          IN /\ \E i \in DOMAIN selectedSpells :
                  /\ best.spellConfig = selectedSpells[i]
                  /\ best.savings = Analysis(i).savings
             /\ \A i \in DOMAIN selectedSpells :
                  best.savings >= Analysis(i).savings

\* the second scenario of the list saves more than the first: the reduce
\* replaces its initial value, and the second is returned
C5_Witness ==
  /\ phase = "idle"
  /\ hours = INITIAL_DRIVING_HOURS
  /\ Len(selectedSpells) = 2
  /\ Analysis(1).savings < Analysis(2).savings
  /\ Head(Recommended).spellConfig = selectedSpells[2]
  /\ Head(Recommended).savings = Analysis(2).savings

\* C6. When several scenarios of the list have the maximal savings,
\* getRecommendedScenario returns the earliest of them.
C6_FirstOfTies ==
  (Rendered /\ Len(selectedSpells) > 0)
    => LET isMax(i) == \A j \in DOMAIN selectedSpells :
                         Analysis(i).savings >= Analysis(j).savings
           first == CHOOSE i \in DOMAIN selectedSpells :
                      isMax(i) /\ \A j \in 1..(i - 1) : ~isMax(j)
       IN Head(Recommended).spellConfig = selectedSpells[first]

\* two scenarios with distinct ids tied at the maximal savings: the first is
\* returned
C6_Witness ==
  /\ phase = "idle"
  /\ hours = INITIAL_DRIVING_HOURS
  /\ Len(selectedSpells) = 2
  /\ Analysis(1).savings = Analysis(2).savings
  /\ selectedSpells[1].id # selectedSpells[2].id
  /\ Head(Recommended).spellConfig = selectedSpells[1]

\* C7. The analysis of a scenario whose option has one-time cost 0 carries
\* no ROI that a division by zero produced (a number, NaN or an infinity):
\* the undefined ratio is flagged as not applicable.
C7_ZeroCostRoiGuarded ==
  \A i \in DOMAIN selectedSpells :
    OneTimeCost(selectedSpells[i].spell) = 0
      => Analysis(i).roi.kind \notin {"finite", "NaN", "Infinity", "-Infinity"}

\* C8. The ROI is shown (in the recommendation text and in the "Return on
\* Investment" line) only when the best savings are > 0, a scenario whose
\* option has one-time cost 0 has savings 0, and so no ROI is shown for a
\* recommended scenario of one-time cost 0.
C8_NoRoiShownForZeroCost ==
  Rendered
    => /\ \A i \in DOMAIN selectedSpells :
            OneTimeCost(selectedSpells[i].spell) = 0 => Analysis(i).savings = 0
       /\ Recommended # <<>> =>
            LET best == Head(Recommended)
                shown == \/ best.recommendation.roi # <<>>
                         \/ RoiLine(selectedSpells, <<best>>) # <<>>
            IN /\ shown => best.savings > 0
               /\ OneTimeCost(best.spellConfig.spell) = 0 => ~shown

\* the recommended scenario is NONE, after a spell that loses money; its
\* roi is NaN and is not shown
C8_Witness ==
  /\ phase = "idle"
  /\ hours = <<3, 2, 1, 0, 0, 0>>
  /\ Len(selectedSpells) = 2
  /\ selectedSpells[1].spell = "ENGINE"
  /\ Analysis(1).savings = -32
  /\ selectedSpells[2].spell = "NONE"
  /\ Head(Recommended).spellConfig = selectedSpells[2]
  /\ Head(Recommended).roi.kind = "NaN"
  /\ Head(Recommended).recommendation.kind = "none"
  /\ RoiLine(selectedSpells, Recommended) = <<>>

\* C14. The result of getRecommendedScenario carries the spellConfig and the
\* signed savings of the best scenario whatever their sign. When they are
\* <= 0 the rendered output says that no scenario saves money and names no
\* recommended option, neither in the message nor in the heading; when they
\* are > 0 the message names the best scenario.
C14_NoOptionNamedWithoutSavings ==
  (Rendered /\ Recommended # <<>>)
    => LET best == Head(Recommended)
           heading == RecommendedSpellHeading(selectedSpells, <<best>>)
       IN /\ \E i \in DOMAIN selectedSpells :
               /\ best.spellConfig = selectedSpells[i]
               /\ best.savings = Analysis(i).savings
          /\ best.savings <= 0
               => /\ best.recommendation.kind = "none"
                  /\ best.recommendation.description = <<>>
                  /\ heading = <<>>
          /\ best.savings > 0
               => /\ best.recommendation.kind = "highest"
                  /\ best.recommendation.description
                       = <<SPELL_OPTIONS(best.spellConfig.spell).label,
                           MONTHS[best.spellConfig.month + 1]>>

\* C15. With an empty scenario list getRecommendedScenario returns null, and
\* with a non-empty list it returns a result.
C15_NullForEmptyList ==
  Rendered
    => /\ selectedSpells = <<>> => Recommended = <<>>
       /\ selectedSpells # <<>> => Len(Recommended) = 1

\* the list is empty again after its only scenario was removed
C15_Witness ==
  /\ phase = "idle"
  /\ selectedSpells = <<>>
  /\ Len(charts) = 3
  /\ Recommended = <<>>

\* C17. Every scenario config of the list has an integer month in 6..11 and
\* a spell of the catalog (NONE, TIRE, ENGINE or BOTH), after any sequence
\* of additions, selections of a spell or a month, and removals.
C17_MonthAndSpellRange ==
  \A i \in DOMAIN selectedSpells :
    /\ selectedSpells[i].month \in Int
    /\ 6 <= selectedSpells[i].month
    /\ selectedSpells[i].month <= 11
    /\ selectedSpells[i].spell \in {"NONE", "TIRE", "ENGINE", "BOTH"}

\* a scenario moved to the last month and to the option BOTH
C17_Witness ==
  /\ phase = "idle"
  /\ Len(selectedSpells) = 1
  /\ selectedSpells[1].month = 11
  /\ selectedSpells[1].spell = "BOTH"

\* C18. A call updateSpell(id, newSpell, newMonth) made for entry i of the
\* list (by its spell select or its month select) sets the spell and the
\* month of entry i, keeps its id, keeps the length of the list, and leaves
\* every other entry as it was, at its place.
C18_UpdatesOneConfig ==
  [][\A i \in DOMAIN selectedSpells :
       \A key \in SpellKeys : \A m \in MonthOptions :
         (/\ phase = "idle"
          /\ phase' = "cleanup"
          /\ selectedSpells'
               = updateSpell(selectedSpells, selectedSpells[i].id, key, m))
           => /\ Len(selectedSpells') = Len(selectedSpells)
              /\ selectedSpells'[i].id = selectedSpells[i].id
              /\ selectedSpells'[i].spell = key
              /\ selectedSpells'[i].month = m
              /\ \A j \in DOMAIN selectedSpells \ {i} :
                   selectedSpells'[j] = selectedSpells[j]]_vars

\* C19. A call removeSpell(id) made for entry i of the list (by its Remove
\* button) shortens the list by exactly one: entry i is gone, and the other
\* entries remain as they were, in their order.
C19_RemovesOneConfig ==
  [][\A i \in DOMAIN selectedSpells :
       (/\ phase = "idle"
        /\ phase' = "cleanup"
        /\ selectedSpells'
             = removeSpell(selectedSpells, selectedSpells[i].id))
         => /\ Len(selectedSpells') = Len(selectedSpells) - 1
            /\ selectedSpells'
                 = [j \in 1..(Len(selectedSpells) - 1) |->
                     IF j < i THEN selectedSpells[j]
                     ELSE selectedSpells[j + 1]]]_vars

\* C20. While the component is mounted at most one Chart that was not
\* destroyed exists, and once the component is unmounted every Chart the
\* effect constructed has been destroyed.
C20_ChartLifecycle ==
  /\ Rendered
       => Cardinality({i \in DOMAIN charts : charts[i] = "live"}) <= 1
  /\ phase = "unmounted"
       => \A i \in DOMAIN charts : charts[i] # "live"

\* C9. No two scenario configs of the list share an id.
C9_UniqueIds ==
  \A i, j \in DOMAIN selectedSpells :
    i # j => selectedSpells[i].id # selectedSpells[j].id

====
